---- MODULE Spec2Model ----
(***************************************************************************)
(* Control service / convergence agent protocol of flocker                 *)
(* (flocker/control/_protocol.py) and the gather_deferreds helper          *)
(* (flocker/common/_defer.py).                                             *)
(*                                                                         *)
(* Twisted runs every handler to completion on one reactor thread, so one  *)
(* action is one handler.  The variable `last` records what the most       *)
(* recently run handler did (its trigger, what it read, the pushes it      *)
(* issued with callRemote); the other variables are the program's state    *)
(* after that handler.                                                     *)
(***************************************************************************)
EXTENDS Integers, Sequences, FiniteSets, TLC

\* ---------------------------------------------------------------- bounds
MaxSessions == 2      \* agent sessions that can exist at the same time
MaxConfig == 1        \* configuration values are 0..MaxConfig
MaxNodeVal == 1       \* a node's reported state is 1..MaxNodeVal
MaxHosts == 1         \* hostnames are 1..MaxHosts
MaxWire == 2          \* pushes in flight on one connection

Sessions == 1..MaxSessions
Configs == 0..MaxConfig
Hosts == 1..MaxHosts
NodeStates == [hostname : Hosts, value : 1..MaxNodeVal]
None == [none |-> TRUE]

VARIABLES
    connections,     \* ControlAMPService.connections
    transport,       \* per session: the state of connection.transport
    running,         \* endpoint_service is listening
    configuration,   \* what configuration_service.get() returns
    node_states,     \* the cluster_state store: hostname -> value, 0 = unknown
    wire,            \* per session: ClusterStatus pushes written, not yet received
    agent_view,      \* per session: last arguments of agent.cluster_updated
    lost,            \* per session: some push to it failed since it connected
    gone,            \* sessions that disconnected and have not reconnected
    last,            \* what the handler that ran last did
    started,         \* startService has been called (endpoint_service has a port)
    versioned        \* sessions on which a Version command has been answered

cvars == <<connections, transport, running, configuration, node_states,
           wire, agent_view, lost, gone, last, started, versioned>>

\* ------------------------------------------------- cluster state store
\* ClusterStateService.as_deployment: the known node states as one value
as_deployment(store) ==
    {[hostname |-> h, value |-> store[h]] : h \in {x \in Hosts : store[x] # 0}}

\* ClusterStateService.update_node_state: replace the node's entry
update_node_state(store, node_state) ==
    [store EXCEPT ![node_state.hostname] = node_state.value]

\* ------------------------------------------------------------ iteration
\* `for connection in connections` over a Python set: some fixed order
RECURSIVE IterationOrder(_)
IterationOrder(S) ==
    IF S = {} THEN <<>>
    ELSE LET c == CHOOSE x \in S : \A y \in S : x <= y
         IN <<c>> \o IterationOrder(S \ {c})

\* connection.callRemote(ClusterStatusCommand, configuration=, state=, ...)
\* The returned Deferred is dropped; `failed` is whether it errbacks.
callRemote(connection, config, state, failing) ==
    [to |-> connection, configuration |-> config, state |-> state,
     failed |-> connection \in failing]

\* the loop left at the first callRemote that fails
RECURSIVE SendLoop_aborting(_, _, _, _)
SendLoop_aborting(order, config, state, failing) ==
    IF order = <<>> THEN <<>>
    ELSE IF Head(order) \in failing
         THEN <<callRemote(Head(order), config, state, failing)>>
         ELSE <<callRemote(Head(order), config, state, failing)>>
              \o SendLoop_aborting(Tail(order), config, state, failing)

\* the loop at lines 235-242: one callRemote per connection, in order
RECURSIVE SendLoop(_, _, _, _)
SendLoop(order, config, state, failing) ==
    IF order = <<>> THEN <<>>
    ELSE <<callRemote(Head(order), config, state, failing)>>
         \o SendLoop(Tail(order), config, state, failing)

\* the stores read again for every connection, inside the loop
send_state_rereading(order, config_store, state_store, failing) ==
    LET config == config_store
        state == as_deployment(state_store)
    IN  [config_reads |-> Len(order), state_reads |-> Len(order),
         configuration |-> config, state |-> state,
         recipients |-> {order[i] : i \in DOMAIN order},
         pushes |-> SendLoop(order, config, state, failing)]

\* ControlAMPService._send_state_to_connections: the configuration and the
\* state are read once, before the loop, and every callRemote gets them.
send_state_to_connections(order, config_store, state_store, failing) ==
    LET config == config_store
        state == as_deployment(state_store)
    IN  [config_reads |-> 1, state_reads |-> 1,
         configuration |-> config, state |-> state,
         recipients |-> {order[i] : i \in DOMAIN order},
         pushes |-> SendLoop(order, config, state, failing)]

NoEpisode ==
    [config_reads |-> 0, state_reads |-> 0, configuration |-> -1,
     state |-> {}, recipients |-> {}, pushes |-> <<>>]

\* the pushes of an episode that reach the wire of session s
Written(episode, s) ==
    SelectSeq(episode.pushes, LAMBDA p : p.to = s /\ ~p.failed)

Pair(p) == [configuration |-> p.configuration, state |-> p.state]

WireAfter(episode) ==
    [s \in Sessions |->
        wire[s] \o [i \in 1..Len(Written(episode, s)) |-> Pair(Written(episode, s)[i])]]

LostAfter(episode) ==
    [s \in Sessions |->
        lost[s] \/ \E i \in DOMAIN episode.pushes :
                       episode.pushes[i].to = s /\ episode.pushes[i].failed]

HasRoom(S) == \A s \in S : Len(wire[s]) < MaxWire

\* What a handler did.  error: the exception it raised, "" for none;
\* response: what it answered to the peer; iterated: the collection the send
\* loop went over ("connections" is self.connections itself, "list" a list
\* built for the call); repeat: a stopService while already stopped.
Handler(trigger, who, node_state, live_before, episode) ==
    [trigger |-> trigger, who |-> who, node_state |-> node_state,
     live_before |-> live_before, episode |-> episode,
     error |-> "", response |-> 0, iterated |-> "none", repeat |-> FALSE]

\* ---------------------------------------------------------------- Init
ControlInit ==
    /\ connections = {}
    /\ transport = [s \in Sessions |-> "closed"]
    /\ running = FALSE
    /\ configuration \in Configs
    /\ node_states = [h \in Hosts |-> 0]
    /\ wire = [s \in Sessions |-> <<>>]
    /\ agent_view = [s \in Sessions |-> None]
    /\ lost = [s \in Sessions |-> FALSE]
    /\ gone = {}
    /\ last = Handler("init", 0, None, {}, NoEpisode)
    /\ started = FALSE
    /\ versioned = {}

\* ------------------------------------------------------------- handlers
\* ControlAMPService.startService
startService ==
    /\ ~running
    /\ running' = TRUE
    /\ started' = TRUE
    /\ last' = Handler("start", 0, None, connections, NoEpisode)
    /\ UNCHANGED <<connections, transport, configuration, node_states,
                   wire, agent_view, lost, gone, versioned>>

\* ControlAMPService.stopService: stop listening, loseConnection() on every
\* live connection; connectionLost comes later, from the reactor
\* stopService asking only the first connection to close
stopService_transports_first(live, tr) ==
    [s \in Sessions |->
        IF live # {} /\ s = IterationOrder(live)[1] THEN "closing" ELSE tr[s]]

\* lines 221-222: loseConnection() on the transport of every connection
stopService_transports(live, tr) ==
    [s \in Sessions |-> IF s \in live THEN "closing" ELSE tr[s]]

\* stopService emptying the set itself
stopService_connections_cleared(live) == {}

\* stopService does not touch self.connections
stopService_connections(live) == live

\* It can be called again while stopped; before the first startService the
\* endpoint service has nothing to stop.
stopService ==
    /\ started
    /\ running' = FALSE
    /\ transport' = stopService_transports(connections, transport)
    /\ connections' = stopService_connections(connections)
    /\ last' = [Handler("stop", 0, None, connections, NoEpisode)
                   EXCEPT !.repeat = ~running]
    /\ UNCHANGED <<configuration, node_states,
                   wire, agent_view, lost, gone, started, versioned>>

\* connected() without the add
connected_forgets(live, connection) == live

\* ControlAMPService.connected
connected(live, connection) == live \cup {connection}

\* connected() broadcasting to self.connections
connected_recipients_all(live, connection) == IterationOrder(live)

\* ControlAMPService.connected: whom the push goes to
connected_recipients(live, connection) == <<connection>>

\* line 253: connected() hands the send loop a list it builds for the call
connected_argument == "list"

\* line 214: the callback hands the send loop self.connections itself
configuration_changed_argument == "connections"

\* line 271: node_changed hands the send loop self.connections itself
node_changed_argument == "connections"

\* ControlAMP.connectionMade -> ControlAMPService.connected
connectionMade(s) ==
    /\ running
    /\ transport[s] = "closed"
    /\ \E failing \in SUBSET connected(connections, s) :
         LET live == connected(connections, s)
             episode == send_state_to_connections(
                            connected_recipients(live, s),
                            configuration, node_states, failing)
         IN  /\ transport' = [transport EXCEPT ![s] = "open"]
             /\ connections' = live
             /\ wire' = WireAfter(episode)
             /\ lost' = LostAfter(episode)
             /\ last' = [Handler("connected", s, None, connections, episode)
                            EXCEPT !.iterated = connected_argument]
    /\ gone' = gone \ {s}
    /\ UNCHANGED <<running, configuration, node_states, agent_view,
                   started, versioned>>

\* disconnected() without the remove
disconnected_keeps(live, connection) == live

\* ControlAMPService.disconnected
disconnected(live, connection) == live \ {connection}

\* set.discard instead of set.remove
disconnected_error_discard(live, connection) == ""

\* line 261: set.remove raises KeyError for an element that is not in the set
disconnected_error(live, connection) ==
    IF connection \in live THEN "" ELSE "KeyError"

\* ControlAMPService.disconnected called with a connection that is not in
\* the set: remove raises before anything changes
disconnected_unknown(s) ==
    /\ s \notin connections
    /\ last' = [Handler("disconnected", s, None, connections, NoEpisode)
                   EXCEPT !.error = disconnected_error(connections, s)]
    /\ connections' = IF disconnected_error(connections, s) = ""
                      THEN disconnected(connections, s) ELSE connections
    /\ UNCHANGED <<transport, running, configuration, node_states, wire,
                   agent_view, lost, gone, started, versioned>>

\* ControlAMP.connectionLost -> ControlAMPService.disconnected.  The session
\* object is finished: what was in flight on it is dropped with it.
connectionLost(s) ==
    /\ transport[s] # "closed"
    /\ transport' = [transport EXCEPT ![s] = "closed"]
    /\ connections' = disconnected(connections, s)
    /\ wire' = [wire EXCEPT ![s] = <<>>]
    /\ agent_view' = [agent_view EXCEPT ![s] = None]
    /\ lost' = [lost EXCEPT ![s] = FALSE]
    /\ gone' = gone \cup {s}
    /\ versioned' = versioned \ {s}
    /\ last' = [Handler("disconnected", s, None, connections, NoEpisode)
                   EXCEPT !.error = disconnected_error(connections, s)]
    /\ UNCHANGED <<running, configuration, node_states, started>>

\* a callback that kept the connections there were at construction
on_configuration_changed_at_registration(live) == <<>>

\* a callback that leaves out the sessions that have not asked for Version
on_configuration_changed_versioned(live) == IterationOrder(live \cap versioned)

\* the callback registered in __init__ (lines 213-214): it reads
\* self.connections when it is called
on_configuration_changed(live) == IterationOrder(live)

\* the configuration store saved a new configuration and called the callback
configuration_changed(c) ==
    /\ HasRoom(connections)
    /\ configuration' = c
    /\ \E failing \in SUBSET connections :
         LET episode == send_state_to_connections(
                            on_configuration_changed(connections),
                            c, node_states, failing)
         IN  /\ wire' = WireAfter(episode)
             /\ lost' = LostAfter(episode)
             /\ last' = [Handler("config", 0, None, connections, episode)
                            EXCEPT !.iterated = configuration_changed_argument]
    /\ UNCHANGED <<connections, transport, running, node_states,
                   agent_view, gone, started, versioned>>

\* node_changed broadcasting before it updates the store
node_changed_broadcast_first(live, config_store, state_store, node_state, failing) ==
    [store |-> update_node_state(state_store, node_state),
     episode |-> send_state_to_connections(
                     IterationOrder(live), config_store, state_store, failing)]

\* ControlAMPService.node_changed: update the store, then broadcast
node_changed(live, config_store, state_store, node_state, failing) ==
    LET updated == update_node_state(state_store, node_state)
    IN  [store |-> updated,
         episode |-> send_state_to_connections(
                         IterationOrder(live), config_store, updated, failing)]

\* ControlServiceLocator.node_changed: a NodeState push from session s
node_state_received(s, node_state) ==
    /\ s \in connections
    /\ transport[s] # "closed"
    /\ HasRoom(connections)
    /\ \E failing \in SUBSET connections :
         LET r == node_changed(connections, configuration, node_states,
                               node_state, failing)
         IN  /\ node_states' = r.store
             /\ wire' = WireAfter(r.episode)
             /\ lost' = LostAfter(r.episode)
             /\ last' = [Handler("node", s, node_state, connections, r.episode)
                            EXCEPT !.iterated = node_changed_argument]
    /\ UNCHANGED <<connections, transport, running, configuration,
                   agent_view, gone, started, versioned>>

\* the newest push received first
next_received_newest(queue) == Len(queue)

\* which push on the wire the agent's AMP receives next: the oldest
next_received(queue) == 1

\* _AgentLocator.cluster_updated: the agent behind session s receives the
\* next push and hands it to agent.cluster_updated
cluster_updated(s) ==
    /\ transport[s] # "closed"
    /\ wire[s] # <<>>
    /\ LET i == next_received(wire[s])
       IN  /\ agent_view' = [agent_view EXCEPT ![s] = wire[s][i]]
           /\ wire' = [wire EXCEPT ![s] =
                          [j \in 1..(Len(wire[s]) - 1) |->
                              IF j < i THEN wire[s][j] ELSE wire[s][j + 1]]]
    /\ last' = Handler("received", s, None, connections, NoEpisode)
    /\ UNCHANGED <<connections, transport, running, configuration,
                   node_states, lost, gone, started, versioned>>

\* a Version responder that answers with a later major version
version_next_major == [major |-> 2]

\* ControlServiceLocator.version
version == [major |-> 1]

\* a Version command from the agent on session s is answered
version_received(s) ==
    /\ s \in connections
    /\ transport[s] # "closed"
    /\ versioned' = versioned \cup {s}
    /\ last' = [Handler("version", s, None, connections, NoEpisode)
                   EXCEPT !.response = version.major]
    /\ UNCHANGED <<connections, transport, running, configuration,
                   node_states, wire, agent_view, lost, gone, started>>


\* =================================================== gather_deferreds
\* flocker/common/_defer.py.  A supplied Deferred is a record: whether it
\* has fired and the result at the end of its callback chain.  Results are
\* records [kind, v]: "ok" with a value, "failure" with the operation that
\* failed, "none" for Python's None, "list" with the gathered results and
\* "FirstError" with the position of the failed Deferred.
MaxDeferreds == 3     \* supplied Deferreds are 0..MaxDeferreds many

VARIABLES
    g_pc,            \* "idle", "before" the call of gather_deferreds, "called"
    log_errors,      \* GatherDeferredsAPI.log_errors
    deferreds,       \* the supplied list
    completed,       \* the operations in the order they completed, with how
    called_at,       \* how many had completed when gather_deferreds was called
    first_failure,   \* the DeferredList of the first gatherResults
    gathering,       \* the DeferredList of the second, which is returned
    log              \* the failures given to log.err, in order

gvars == <<g_pc, log_errors, deferreds, completed, called_at,
           first_failure, gathering, log>>


Ok(i) == [kind |-> "ok", v |-> i]
Failure(i) == [kind |-> "failure", v |-> i]
PyNone == [kind |-> "none", v |-> 0]
Pending == [fired |-> FALSE, result |-> PyNone]
IsFailure(r) == r.kind \in {"failure", "FirstError"}

\* twisted.internet.defer.DeferredList(fireOnOneErrback=True) followed by
\* _parseDListResult, as gatherResults builds it, before any callback ran;
\* `fired`/`outcome` are the end of the Deferred's own callback chain
NewDeferredList(n) ==
    [called |-> n = 0,
     result |-> [kind |-> "list", v |-> <<>>],
     resultList |-> [i \in 1..n |-> PyNone],
     finishedCount |-> 0,
     fired |-> FALSE,
     outcome |-> PyNone]

\* DeferredList._cbDeferred(result, index, succeeded), fireOnOneErrback=True
cbDeferred(dl, index, result) ==
    LET rl == [dl.resultList EXCEPT ![index] = result]
        fc == dl.finishedCount + 1
        seen == [dl EXCEPT !.resultList = rl, !.finishedCount = fc]
    IN  IF dl.called THEN seen
        ELSE IF IsFailure(result)
             THEN [seen EXCEPT !.called = TRUE,
                               !.result = [kind |-> "FirstError", v |-> index]]
        ELSE IF fc = Len(rl)
             THEN [seen EXCEPT !.called = TRUE,
                               !.result = [kind |-> "list", v |-> rl]]
        ELSE seen

\* GatherDeferredsAPI._log_and_return_failure: what is logged
log_and_return_failure_logs(enabled, failure) ==
    IF enabled THEN <<failure.v>> ELSE <<>>

\* the errback returning the failure it logged
log_and_return_failure_returns_failure(failure) == failure

\* GatherDeferredsAPI._log_and_return_failure: what the errback returns
\* (the function has no return statement)
log_and_return_failure_returns(failure) == PyNone

\* the second gather returned without the callback of line 65
gather_deferreds_chain_unchained(ff, ga) ==
    IF ga.called THEN [ga EXCEPT !.fired = TRUE, !.outcome = ga.result] ELSE ga

\* gathering.addCallback(lambda ignored: first_failure): the returned
\* Deferred takes the result of first_failure once both have fired
gather_deferreds_chain(ff, ga) ==
    IF ga.called /\ ~IsFailure(ga.result)
    THEN IF ff.called
         THEN [ga EXCEPT !.fired = TRUE, !.outcome = ff.result]
         ELSE ga
    ELSE IF ga.called
         THEN [ga EXCEPT !.fired = TRUE, !.outcome = ga.result]
         ELSE ga

\* the logging errback added only when log_errors is set
RunChain_errback_when_logging(st, index, result) ==
    LET ff == cbDeferred(st.first_failure, index, result)
        handled == IsFailure(result) /\ st.log_errors
        logged == IF handled
                  THEN st.log \o log_and_return_failure_logs(st.log_errors, result)
                  ELSE st.log
        after == IF handled
                 THEN log_and_return_failure_returns(result)
                 ELSE result
        ga == cbDeferred(st.gathering, index, after)
    IN  [st EXCEPT !.first_failure = ff, !.log = logged, !.gathering = ga,
                   !.deferreds = [st.deferreds EXCEPT ![index] =
                                     [fired |-> TRUE, result |-> after]]]

\* The callback chain gather_deferreds builds on supplied Deferred `index`,
\* run on `result`: first gather, logging errback, second gather.
RunChain(st, index, result) ==
    LET ff == cbDeferred(st.first_failure, index, result)
        logged == IF IsFailure(result)
                  THEN st.log \o log_and_return_failure_logs(st.log_errors, result)
                  ELSE st.log
        after == IF IsFailure(result)
                 THEN log_and_return_failure_returns(result)
                 ELSE result
        ga == cbDeferred(st.gathering, index, after)
    IN  [st EXCEPT !.first_failure = ff, !.log = logged, !.gathering = ga,
                   !.deferreds = [st.deferreds EXCEPT ![index] =
                                     [fired |-> TRUE, result |-> after]]]

\* adding the chain to every supplied Deferred: one that has already fired
\* runs its new callbacks at once, in list order
RECURSIVE AddChains(_, _)
AddChains(st, index) ==
    IF index > Len(st.deferreds) THEN st
    ELSE IF st.deferreds[index].fired
         THEN AddChains(RunChain(st, index, st.deferreds[index].result), index + 1)
         ELSE AddChains(st, index + 1)

GState(ds, ff, ga, lg, le) ==
    [deferreds |-> ds, first_failure |-> ff, gathering |-> ga, log |-> lg,
     log_errors |-> le]

\* GatherDeferredsAPI.gather_deferreds
gather_deferreds(ds, le) ==
    LET n == Len(ds)
        st == AddChains(GState(ds, NewDeferredList(n), NewDeferredList(n), <<>>, le), 1)
    IN  [st EXCEPT !.gathering =
                       gather_deferreds_chain(st.first_failure, st.gathering)]

ControlIdle ==
    /\ connections = {}
    /\ transport = [s \in Sessions |-> "closed"]
    /\ running = FALSE
    /\ configuration = 0
    /\ node_states = [h \in Hosts |-> 0]
    /\ wire = [s \in Sessions |-> <<>>]
    /\ agent_view = [s \in Sessions |-> None]
    /\ lost = [s \in Sessions |-> FALSE]
    /\ gone = {}
    /\ last = Handler("init", 0, None, {}, NoEpisode)
    /\ started = FALSE
    /\ versioned = {}

GatherIdle ==
    /\ g_pc = "idle"
    /\ log_errors = TRUE
    /\ deferreds = <<>>
    /\ completed = <<>>
    /\ called_at = 0
    /\ first_failure = NewDeferredList(0)
    /\ gathering = NewDeferredList(0)
    /\ log = <<>>

\* a caller holds a list of Deferreds, none fired yet

Outcome(i, ok) == IF ok THEN Ok(i) ELSE Failure(i)

\* an operation completes before its Deferred is handed to gather_deferreds
fire_before(i, ok) ==
    /\ g_pc = "before"
    /\ ~deferreds[i].fired
    /\ deferreds' = [deferreds EXCEPT ![i] = [fired |-> TRUE, result |-> Outcome(i, ok)]]
    /\ completed' = Append(completed, [op |-> i, ok |-> ok])
    /\ UNCHANGED <<g_pc, log_errors, called_at, first_failure, gathering, log>>

\* the call gather_deferreds(deferreds)
call_gather_deferreds ==
    /\ g_pc = "before"
    /\ g_pc' = "called"
    /\ called_at' = Len(completed)
    /\ LET st == gather_deferreds(deferreds, log_errors)
       IN  /\ deferreds' = st.deferreds
           /\ first_failure' = st.first_failure
           /\ gathering' = st.gathering
           /\ log' = st.log
    /\ UNCHANGED <<log_errors, completed>>

\* an operation completes after the call: its Deferred runs the chain
fire_after(i, ok) ==
    /\ g_pc = "called"
    /\ ~deferreds[i].fired
    /\ completed' = Append(completed, [op |-> i, ok |-> ok])
    /\ LET st == RunChain(GState(deferreds, first_failure, gathering, log, log_errors),
                          i, Outcome(i, ok))
       IN  /\ deferreds' = st.deferreds
           /\ first_failure' = st.first_failure
           /\ gathering' = gather_deferreds_chain(st.first_failure, st.gathering)
           /\ log' = st.log
    /\ UNCHANGED <<g_pc, log_errors, called_at>>


\* ============================================= trace context and agent
\* One agent connection seen from both ends: the control service's send
\* loop with its Eliot actions (lines 232-242), the responder wrapper
\* with_eliot_context (lines 106-122) and the agent side, _AgentLocator and
\* AgentAMP (lines 304-354).  An Eliot action is its task uuid, its task
\* level (a path in the task's tree) and how many children it has handed
\* out; a serialized task id is the uuid, a separator (-1) and the level.
MaxTasks == 2         \* broadcast episodes sent to the agent

VARIABLES
    a_transport,     \* the agent's connection: "idle", "new", "open", "lost"
    a_session,       \* the attributes of the AgentAMP instance
    a_inbox,         \* ClusterStatus boxes sent to the agent, not yet received
    a_calls,         \* the calls made on the IConvergenceAgent, in order
    a_actions,       \* the Eliot actions the control service has opened
    a_tasks,         \* how many episodes have been sent
    a_handled,       \* what the responder did for each box received
    a_scope          \* the agent process's stack of current Eliot actions

avars == <<a_transport, a_session, a_inbox, a_calls, a_actions, a_tasks,
           a_handled, a_scope>>

vars == <<cvars, gvars, avars>>

NoAction == [task_uuid |-> -1, task_level |-> <<>>, last_child |-> 0]
Action(uuid, level) == [task_uuid |-> uuid, task_level |-> level, last_child |-> 0]

\* Action._nextTaskLevel: the level of the next child or message
nextTaskLevel(action) == action.task_level \o <<action.last_child + 1>>
Advance(action) == [action EXCEPT !.last_child = @ + 1]

\* Action.serialize_task_id: "uuid@level", the level being a fresh child's
serialize_task_id(action) ==
    <<action.task_uuid, -1>> \o nextTaskLevel(action)

\* Action.continue_task: split at the separator, open an action at that
\* level of that task and log its start
continue_task(task_id) ==
    Advance(Action(task_id[1], SubSeq(task_id, 3, Len(task_id))))

\* ActionType.__call__ (startAction): a child of the current action, or the
\* root of a new task, with its start message logged
startAction(parent, fresh_uuid) ==
    IF parent = NoAction
    THEN Advance(Action(fresh_uuid, <<>>))
    ELSE Advance(Action(parent.task_uuid, nextTaskLevel(parent)))

\* the context sent along being the episode's action, not the recipient's
eliot_context_of_episode(episode_action, to_agent_action) ==
    serialize_task_id(episode_action)

\* line 241: eliot_context=action.serialize_task_id(), `action` being the
\* LOG_SEND_TO_AGENT action of this recipient
eliot_context_argument(episode_action, to_agent_action) ==
    serialize_task_id(to_agent_action)

\* lines 235-242 with their actions: for every connection a
\* LOG_SEND_TO_AGENT action inside the episode's action, and a box carrying
\* the configuration, the state and the serialized task id
RECURSIVE SendLoopTraced(_, _, _, _)
SendLoopTraced(order, episode_action, config, state) ==
    IF order = <<>> THEN <<>>
    ELSE LET to_agent == startAction(episode_action, episode_action.task_uuid)
             box == [configuration |-> config, state |-> state,
                     eliot_context |->
                         eliot_context_argument(episode_action, to_agent)]
         IN  <<[to |-> Head(order), action |-> to_agent,
                inside |-> episode_action.task_level, box |-> box]>>
             \o SendLoopTraced(Tail(order), Advance(episode_action), config, state)

\* lines 230-242: the LOG_SEND_CLUSTER_STATE action around the loop
send_state_traced(order, current, fresh_uuid, config, state) ==
    LET episode_action == startAction(current, fresh_uuid)
    IN  [episode |-> episode_action,
         sends |-> SendLoopTraced(order, episode_action, config, state)]

\* a responder that leaves the scope open when the handler raises
with_eliot_context_unscoped(scope, box, raises) ==
    LET eliot_context == box.eliot_context
        kwargs == [k \in DOMAIN box \ {"eliot_context"} |-> box[k]]
        action == continue_task(eliot_context)
    IN  [action |-> action,
         events |-> IF raises THEN <<"continue_task", "enter", "call">>
                    ELSE <<"continue_task", "enter", "call", "exit">>,
         resumed_from |-> eliot_context,
         kwargs |-> kwargs,
         raised |-> raises,
         scope_after |-> IF raises THEN <<action>> \o scope ELSE scope]

\* with_eliot_context: the responder takes eliot_context out of the
\* arguments, continues the task, and calls the wrapped function with the
\* rest inside `with`, whose __exit__ runs on return and on an exception
with_eliot_context(scope, box, raises) ==
    LET eliot_context == box.eliot_context
        kwargs == [k \in DOMAIN box \ {"eliot_context"} |-> box[k]]
        action == continue_task(eliot_context)
    IN  [action |-> action,
         events |-> <<"continue_task", "enter", "call", "exit">>,
         resumed_from |-> eliot_context,
         kwargs |-> kwargs,
         raised |-> raises,
         scope_after |-> scope]

\* AgentAMP.__init__: the instance keeps the agent (and the locator made of it)
AgentAMP_init == [agent |-> "agent", locator |-> [agent |-> "agent"]]

AgentCall(method, client, config, state) ==
    [method |-> method, client |-> client, configuration |-> config,
     state |-> state]

\* AgentAMP.connectionMade: agent.connected(self)
AgentAMP_connectionMade_calls == <<AgentCall("connected", "self", -1, {})>>

\* connectionLost that does not tell the agent
AgentAMP_connectionLost_silent == <<>>

\* AgentAMP.connectionLost: agent.disconnected()
AgentAMP_connectionLost_calls == <<AgentCall("disconnected", "", -1, {})>>

\* _AgentLocator.cluster_updated: agent.cluster_updated(configuration, state)
AgentLocator_cluster_updated_calls(kwargs) ==
    <<AgentCall("cluster_updated", "", kwargs.configuration, kwargs.state)>>

AgentStates == {as_deployment([h \in Hosts |-> v]) : v \in 0..1}
\* the action a NodeState responder on the control service runs in
ResumedAction(uuid) == Advance(Action(uuid, <<1>>))
SendOrders == {<<1>>, <<2, 1>>}

AgentIdle ==
    /\ a_transport = "idle"
    /\ a_session = AgentAMP_init
    /\ a_inbox = <<>>
    /\ a_calls = <<>>
    /\ a_actions = {}
    /\ a_tasks = 0
    /\ a_handled = <<>>
    /\ a_scope = <<>>

InitAgent ==
    /\ ControlIdle
    /\ GatherIdle
    /\ a_transport = "new"
    /\ a_session = AgentAMP_init
    /\ a_inbox = <<>>
    /\ a_calls = <<>>
    /\ a_actions = {}
    /\ a_tasks = 0
    /\ a_handled = <<>>
    /\ a_scope = <<>>

\* AgentAMP.connectionMade
agent_connectionMade ==
    /\ a_transport = "new"
    /\ a_transport' = "open"
    /\ a_calls' = a_calls \o AgentAMP_connectionMade_calls
    /\ UNCHANGED <<a_session, a_inbox, a_actions, a_tasks, a_handled, a_scope>>

\* AgentAMP.connectionLost
agent_connectionLost ==
    /\ a_transport = "open"
    /\ a_transport' = "lost"
    /\ a_inbox' = <<>>
    /\ a_calls' = a_calls \o AgentAMP_connectionLost_calls
    /\ UNCHANGED <<a_session, a_actions, a_tasks, a_handled, a_scope>>

\* the control service runs an episode whose recipients include this agent
\* (session 1), either from a NodeState responder or outside any action
control_sends(order, config, state, current) ==
    /\ a_transport = "open"
    /\ a_tasks < MaxTasks
    /\ a_tasks' = a_tasks + 1
    /\ LET sent == send_state_traced(order, current, a_tasks + 1, config, state)
           mine == SelectSeq(sent.sends, LAMBDA x : x.to = 1)
       IN  /\ a_actions' = a_actions
                  \cup {[kind |-> "episode", to |-> 0, action |-> sent.episode,
                         inside |-> <<>>]}
                  \cup {[kind |-> "to_agent", to |-> sent.sends[i].to,
                         action |-> sent.sends[i].action,
                         inside |-> sent.sends[i].inside] :
                            i \in DOMAIN sent.sends}
           /\ a_inbox' = a_inbox \o [i \in DOMAIN mine |-> mine[i].box]
    /\ UNCHANGED <<a_transport, a_session, a_calls, a_handled, a_scope>>

\* the agent's AMP receives the next ClusterStatus box and runs the
\* responder of _AgentLocator.cluster_updated; the agent's method may raise
agent_receives(raises) ==
    /\ a_transport = "open"
    /\ a_inbox # <<>>
    /\ LET box == Head(a_inbox)
           run == with_eliot_context(a_scope, box, raises)
       IN  /\ a_handled' = Append(a_handled, [box |-> box, run |-> run])
           /\ a_calls' = a_calls \o AgentLocator_cluster_updated_calls(run.kwargs)
           /\ a_scope' = run.scope_after
    /\ a_inbox' = Tail(a_inbox)
    /\ UNCHANGED <<a_transport, a_session, a_actions, a_tasks>>

NextAgent ==
    \/ agent_connectionMade /\ UNCHANGED <<cvars, gvars>>
    \/ agent_connectionLost /\ UNCHANGED <<cvars, gvars>>
    \/ \E order \in SendOrders, config \in Configs, state \in AgentStates,
          current \in {NoAction, ResumedAction(MaxTasks + a_tasks + 1)} :
           control_sends(order, config, state, current) /\ UNCHANGED <<cvars, gvars>>
    \/ \E raises \in BOOLEAN : agent_receives(raises) /\ UNCHANGED <<cvars, gvars>>

\* ============================================================ properties
IsEpisode == last.trigger \in {"connected", "config", "node"}

\* how many pushes of the last episode went to session r
PushesTo(r) ==
    Cardinality({i \in DOMAIN last.episode.pushes : last.episode.pushes[i].to = r})

PushTargets == {last.episode.pushes[i].to : i \in DOMAIN last.episode.pushes}

CurrentPair ==
    [configuration |-> configuration, state |-> as_deployment(node_states)]

\* C1: in every broadcast episode the configuration and the aggregated state
\* are each read once, every recipient is sent exactly one ClusterStatus
\* push, and every push of the episode carries that same pair.
C1_EpisodeSendsOneSnapshot ==
    IsEpisode =>
        LET e == last.episode
        IN  /\ e.config_reads = 1
            /\ e.state_reads = 1
            /\ e.configuration = configuration
            /\ e.state = as_deployment(node_states)
            /\ PushTargets = e.recipients
            /\ \A r \in e.recipients : PushesTo(r) = 1
            /\ \A i \in DOMAIN e.pushes :
                   Pair(e.pushes[i]) =
                       [configuration |-> e.configuration, state |-> e.state]

C1_Witness ==
    /\ last.trigger = "node"
    /\ Cardinality(last.episode.recipients) >= 2
    /\ last.episode.state # {}

\* C2: a connect adds the session to the live set and issues exactly one
\* push, to that session only, carrying the stores' values at that time.
C2_ConnectPushesToNewSessionOnly ==
    last.trigger = "connected" =>
        /\ connections = last.live_before \cup {last.who}
        /\ Len(last.episode.pushes) = 1
        /\ last.episode.pushes[1].to = last.who
        /\ Pair(last.episode.pushes[1]) = CurrentPair

C2_Witness ==
    /\ last.trigger = "connected"
    /\ last.live_before # {}
    /\ last.who \notin last.live_before

\* C3: a NodeState push is merged into the store before the snapshot is
\* read, and the push that follows goes once to every live session, the
\* reporting one included, with a state that contains the node's report.
C3_NodeStateMergedBeforeBroadcast ==
    last.trigger = "node" =>
        /\ last.node_state \in as_deployment(node_states)
        /\ last.node_state \in last.episode.state
        /\ \A i \in DOMAIN last.episode.pushes :
               last.node_state \in last.episode.pushes[i].state
        /\ PushTargets = connections
        /\ last.who \in PushTargets
        /\ \A r \in connections : PushesTo(r) = 1

C3_Witness ==
    /\ last.trigger = "node"
    /\ connections = Sessions
    /\ \E s \in Sessions : s # last.who

\* C4: a disconnect removes the session and issues no push, and no later
\* broadcast for a configuration change or a node state pushes to a
\* session that has disconnected.
C4_DisconnectedGetsNoPush ==
    /\ last.trigger = "disconnected" =>
           /\ last.who \notin connections
           /\ connections = last.live_before \ {last.who}
           /\ last.episode.pushes = <<>>
    /\ last.trigger \in {"config", "node"} =>
           /\ PushTargets \cap gone = {}
           /\ \A r \in PushTargets : transport[r] # "closed"

C4_Witness ==
    /\ last.trigger \in {"config", "node"}
    /\ gone # {}
    /\ last.episode.pushes # <<>>

\* C5: a configuration change triggers one episode whose recipients are the
\* sessions live when the callback runs.
C5_ConfigChangeBroadcastsToLiveSet ==
    last.trigger = "config" =>
        /\ last.episode.config_reads = 1
        /\ last.episode.recipients = last.live_before
        /\ PushTargets = connections
        /\ \A r \in connections : PushesTo(r) = 1
        /\ \A i \in DOMAIN last.episode.pushes :
               Pair(last.episode.pushes[i]) = CurrentPair

C5_Witness ==
    /\ last.trigger = "config"
    /\ connections = Sessions

\* every push issued on s since it connected has been received
AllDelivered(s) == wire[s] = <<>> /\ ~lost[s]

\* C6: once every push issued to a connected session has been delivered in
\* send order, the agent's last cluster_updated arguments are the control
\* service's current configuration and aggregated state.
C6_QuiescentAgentsAgreeWithService ==
    \A s \in connections : AllDelivered(s) => agent_view[s] = CurrentPair

C6_Witness ==
    /\ connections = Sessions
    /\ \A s \in Sessions : AllDelivered(s) /\ agent_view[s] = CurrentPair
    /\ node_states # [h \in Hosts |-> 0]
    /\ gone = {}
    /\ last.trigger = "received"

\* connection.transport is open until connectionLost; loseConnection only
\* asks for the close
TransportOpen(s) == transport[s] # "closed"

\* C7: a session is in the live connection set iff its transport is open.
C7_LiveSetIsOpenTransports ==
    connections = {s \in Sessions : TransportOpen(s)}

C7_Witness ==
    /\ last.trigger = "stop"
    /\ \E s \in connections : transport[s] = "closing"
    /\ gone # {}

\* C10: a push that fails for one recipient leaves that session in the live
\* set and every other recipient of the episode still gets its push.
C10_FailedPushIsolated ==
    (IsEpisode /\ \E i \in DOMAIN last.episode.pushes : last.episode.pushes[i].failed) =>
        /\ last.episode.recipients \subseteq connections
        /\ last.live_before \subseteq connections
        /\ \A r \in last.episode.recipients : PushesTo(r) = 1

C10_Witness ==
    /\ last.trigger = "config"
    /\ Len(last.episode.pushes) >= 2
    /\ last.episode.pushes[1].failed
    /\ ~last.episode.pushes[2].failed
    /\ last.episode.pushes[1].to \in connections

\* ------------------------------------------ version, stop, disconnect
\* C11 as claimed: no ClusterStatus push goes to, and no NodeState push is
\* accepted from, a connection on which the Version exchange has not
\* completed.
C11_NoPushBeforeVersion ==
    /\ IsEpisode => PushTargets \subseteq versioned
    /\ last.trigger = "node" => last.who \in versioned

\* C11, amended: the control service does not wait for Version.  The push
\* of connected() is issued at connectionMade, when no Version command can
\* have been answered on the connection, and NodeState pushes are accepted
\* and later pushes sent to every live session, versioned or not.
C11_ServiceDoesNotGateOnVersion ==
    /\ last.trigger = "connected" =>
           /\ last.who \notin versioned
           /\ PushesTo(last.who) = 1
    /\ last.trigger \in {"config", "node"} => PushTargets = connections
    /\ versioned \subseteq connections

C11_Witness ==
    /\ last.trigger = "node"
    /\ last.who \notin versioned
    /\ versioned # {}
    /\ PushTargets \ versioned # {}

\* C12: stopService stops listening and asks every live session to close,
\* without error, also when it is called again and when sessions have
\* disconnected in between; once the connectionLost of every closing
\* session has been delivered the live set is empty.
C12_StopClosesEveryLiveSession ==
    /\ last.trigger = "stop" =>
           /\ ~running
           /\ last.error = ""
           /\ connections = last.live_before
           /\ \A s \in last.live_before : transport[s] = "closing"
    /\ ~running => \A s \in connections : transport[s] = "closing"
    /\ (~running /\ \A s \in Sessions : transport[s] # "closing") =>
           connections = {}

C12_Witness ==
    /\ last.trigger = "stop"
    /\ last.repeat
    /\ gone # {}
    /\ connections # {}

\* C13: Version always answers major 1 and handling it changes neither the
\* live set nor the stores and issues no push.
C13_VersionIsConstantAndPure ==
    [][last'.trigger = "version" =>
          /\ last'.response = 1
          /\ last'.episode.pushes = <<>>
          /\ UNCHANGED <<connections, node_states, configuration, wire,
                         transport>>]_vars

C13_Witness ==
    /\ last.trigger = "version"
    /\ last.response = 1
    /\ last.who \in versioned
    /\ connections = Sessions
    /\ node_states # [h \in Hosts |-> 0]
    /\ gone = {}
    /\ ~running

\* C17: a broadcast over the live connection set iterates a snapshot taken
\* at the start of the episode, not the live set itself.
C17_BroadcastIteratesSnapshot ==
    last.trigger \in {"config", "node"} => last.iterated # "connections"

\* C18: a session whose close stopService has requested stays in the live
\* set until its connectionLost, and a configuration change or node state
\* in that window still pushes to it.
C18_ClosingSessionsStillPushed ==
    /\ \A s \in Sessions : transport[s] = "closing" => s \in connections
    /\ last.trigger \in {"config", "node"} =>
           /\ last.episode.config_reads = 1
           /\ \A s \in last.live_before :
                  transport[s] = "closing" => PushesTo(s) = 1

C18_Witness ==
    /\ last.trigger = "config"
    /\ ~running
    /\ \E s \in connections : transport[s] = "closing" /\ PushesTo(s) = 1

\* C19: disconnected() for a session that is not in the live set raises and
\* leaves the set as it was.
C19_UnknownDisconnectRaises ==
    (last.trigger = "disconnected" /\ last.who \notin last.live_before) =>
        /\ last.error = "KeyError"
        /\ connections = last.live_before

C19_Witness ==
    /\ last.trigger = "disconnected"
    /\ last.who \in gone
    /\ last.who \notin last.live_before
    /\ last.error = "KeyError"
    /\ connections # {}

\* ------------------------------------------------ gather_deferreds
AllFired == \A i \in DOMAIN deferreds : deferreds[i].fired
FailedOps == {completed[k].op : k \in {j \in DOMAIN completed : ~completed[j].ok}}

FirstCompletedFailure ==
    completed[CHOOSE k \in DOMAIN completed :
                 /\ ~completed[k].ok
                 /\ \A j \in 1..(k - 1) : completed[j].ok].op

FailedBeforeCall ==
    {completed[k].op : k \in {j \in 1..called_at : ~completed[j].ok}}

\* the failure the first gatherResults sees first: of those that had failed
\* before the call the one first in the list, else the first to fail after
FirstObservedFailure ==
    IF FailedBeforeCall # {}
    THEN CHOOSE i \in FailedBeforeCall : \A j \in FailedBeforeCall : i <= j
    ELSE FirstCompletedFailure

AllResults == [i \in DOMAIN deferreds |-> Ok(i)]

LoggedOnce ==
    IF log_errors
    THEN /\ {log[k] : k \in DOMAIN log} = FailedOps
         /\ Len(log) = Cardinality(FailedOps)
    ELSE log = <<>>

\* C9 as claimed: the failure is the one of the operation that completed
\* first, whatever its position in the list.
C9_FirstCompletedFailureWins ==
    gathering.fired =>
        /\ FailedOps = {} =>
               /\ gathering.outcome.kind = "list"
               /\ gathering.outcome.v = AllResults
        /\ FailedOps # {} =>
               /\ gathering.outcome.kind = "FirstError"
               /\ gathering.outcome.v = FirstCompletedFailure
        /\ LoggedOnce

\* C9, amended: all results when none failed; otherwise the failure the
\* first gather saw first (operations that failed before the call count in
\* list order); every failure is logged exactly once when log_errors.
C9_FirstObservedFailureWins ==
    gathering.fired =>
        /\ FailedOps = {} =>
               /\ gathering.outcome.kind = "list"
               /\ gathering.outcome.v = AllResults
        /\ FailedOps # {} =>
               /\ gathering.outcome.kind = "FirstError"
               /\ gathering.outcome.v = FirstObservedFailure
        /\ LoggedOnce

C9_Witness ==
    /\ gathering.fired
    /\ log_errors
    /\ Cardinality(FailedOps) >= 2
    /\ called_at = 0
    /\ FirstCompletedFailure # (CHOOSE i \in FailedOps : \A j \in FailedOps : i <= j)
    /\ gathering.outcome.v = FirstCompletedFailure


\* the supplied list as it was when gather_deferreds was called
DeferredsAtCall ==
    [i \in DOMAIN deferreds |->
        IF \E k \in 1..called_at : completed[k].op = i
        THEN LET k == CHOOSE j \in 1..called_at : completed[j].op = i
             IN  [fired |-> TRUE, result |-> Outcome(i, completed[k].ok)]
        ELSE Pending]

\* the completions after the call, from the k-th on, run on state st
RECURSIVE ReplayFires(_, _)
ReplayFires(st, k) ==
    IF k > Len(completed) THEN st
    ELSE LET r == RunChain(st, completed[k].op,
                           Outcome(completed[k].op, completed[k].ok))
         IN  ReplayFires(
                 [r EXCEPT !.gathering =
                      gather_deferreds_chain(r.first_failure, r.gathering)],
                 k + 1)

\* the same run of completions with log_errors set to le
Replay(le) == ReplayFires(gather_deferreds(DeferredsAtCall, le), called_at + 1)

SameOutcome(a, b) ==
    /\ a.fired = b.fired
    /\ a.outcome.kind = b.outcome.kind
    /\ a.outcome.v = b.outcome.v

IsChildLevel(level, parent) ==
    /\ Len(level) = Len(parent) + 1
    /\ SubSeq(level, 1, Len(parent)) = parent

Positions(seq, x) == {i \in DOMAIN seq : seq[i] = x}

\* C14: the trace-context wrapper resumes the trace named by the context
\* before the handler, calls the handler exactly once with the arguments
\* minus the context, and has closed the resumed scope when it is left,
\* whether the handler returned or raised.
C14_WrapperResumesCallsOnceAndCloses ==
    /\ a_scope = <<>>
    /\ \A k \in DOMAIN a_handled :
        LET box == a_handled[k].box
            run == a_handled[k].run
        IN  /\ run.resumed_from = box.eliot_context
            /\ run.action.task_uuid = box.eliot_context[1]
            /\ Cardinality(Positions(run.events, "call")) = 1
            /\ \A c \in Positions(run.events, "call") :
                 /\ \E r \in Positions(run.events, "continue_task") : r < c
                 /\ \E e \in Positions(run.events, "enter") : e < c
                 /\ \E x \in Positions(run.events, "exit") : c < x
            /\ Cardinality(Positions(run.events, "enter"))
                 = Cardinality(Positions(run.events, "exit"))
            /\ DOMAIN run.kwargs = {"configuration", "state"}
            /\ run.kwargs.configuration = box.configuration
            /\ run.kwargs.state = box.state

C14_Witness ==
    /\ a_scope = <<>>
    /\ \E j, k \in DOMAIN a_handled :
        /\ a_handled[j].run.raised
        /\ ~a_handled[k].run.raised
        /\ j < k

\* the action the control service opened for this agent and whose
\* serialized id is the given context
SenderOf(context) ==
    {A \in a_actions :
        /\ A.kind = "to_agent"
        /\ A.to = 1
        /\ serialize_task_id(A.action) = context}

InsideEpisode(A) ==
    \E E \in a_actions :
        /\ E.kind = "episode"
        /\ E.action.task_uuid = A.action.task_uuid
        /\ E.action.task_level = A.inside
        /\ IsChildLevel(A.action.task_level, E.action.task_level)

\* C15: the context a push carries is the serialized id of the action
\* opened for that recipient inside the episode's action, and the agent's
\* handler runs in a trace resumed from exactly that id: same task, one
\* level below the sender's action for that recipient.
C15_ContextIsRecipientActionAndResumed ==
    /\ \A i \in DOMAIN a_inbox :
        /\ Cardinality(SenderOf(a_inbox[i].eliot_context)) = 1
        /\ \A A \in SenderOf(a_inbox[i].eliot_context) : InsideEpisode(A)
    /\ \A k \in DOMAIN a_handled :
        LET box == a_handled[k].box
            run == a_handled[k].run
        IN  /\ Cardinality(SenderOf(box.eliot_context)) = 1
            /\ \A A \in SenderOf(box.eliot_context) :
                 /\ InsideEpisode(A)
                 /\ run.action.task_uuid = A.action.task_uuid
                 /\ IsChildLevel(run.action.task_level, A.action.task_level)
                 /\ ~IsChildLevel(run.action.task_level, A.inside)

C15_Witness ==
    \E j, k \in DOMAIN a_handled :
        /\ Len(a_handled[j].run.action.task_level) = 2
        /\ Len(a_handled[k].run.action.task_level) = 4
        /\ a_handled[k].run.action.task_level[3] = 3

CallsOf(method) == SelectSeq(a_calls, LAMBDA c : c.method = method)

\* C16: the agent's session only translates: one agent.connected(session)
\* when the connection is made, one agent.disconnected() when it is lost,
\* one agent.cluster_updated(configuration, state) per push received, with
\* what the push carried, and the session's attributes never change.
C16_SessionIsPureTranslation ==
    /\ a_session = AgentAMP_init
    /\ CallsOf("connected") =
         (IF a_transport \in {"open", "lost"}
          THEN <<AgentCall("connected", "self", -1, {})>> ELSE <<>>)
    /\ CallsOf("disconnected") =
         (IF a_transport = "lost"
          THEN <<AgentCall("disconnected", "", -1, {})>> ELSE <<>>)
    /\ CallsOf("cluster_updated") =
         [k \in DOMAIN a_handled |->
            AgentCall("cluster_updated", "", a_handled[k].box.configuration,
                      a_handled[k].box.state)]
    /\ a_calls # <<>> => a_calls[1].method = "connected"
    /\ a_transport = "lost" => a_calls[Len(a_calls)].method = "disconnected"

C16_Witness ==
    /\ a_transport = "lost"
    /\ \E j, k \in DOMAIN a_handled :
        /\ j < k
        /\ a_handled[j].box.configuration # a_handled[k].box.configuration
        /\ a_handled[j].box.state # a_handled[k].box.state

Next ==
    \/ startService /\ UNCHANGED <<gvars, avars>>
    \/ stopService /\ UNCHANGED <<gvars, avars>>
    \/ \E s \in Sessions : connectionMade(s) /\ UNCHANGED <<gvars, avars>>
    \/ \E s \in Sessions : connectionLost(s) /\ UNCHANGED <<gvars, avars>>
    \/ \E c \in Configs : configuration_changed(c) /\ UNCHANGED <<gvars, avars>>
    \/ \E s \in Sessions, n \in NodeStates : node_state_received(s, n) /\ UNCHANGED <<gvars, avars>>
    \/ \E s \in Sessions : cluster_updated(s) /\ UNCHANGED <<gvars, avars>>
    \/ \E s \in Sessions : version_received(s) /\ UNCHANGED <<gvars, avars>>
    \/ \E s \in Sessions : disconnected_unknown(s) /\ UNCHANGED <<gvars, avars>>

Init == ControlInit /\ GatherIdle /\ AgentIdle

Spec == Init /\ [][Next]_vars

InitGather ==
    /\ ControlIdle
    /\ AgentIdle
    /\ g_pc = "before"
    /\ log_errors \in BOOLEAN
    /\ \E n \in 0..MaxDeferreds : deferreds = [i \in 1..n |-> Pending]
    /\ completed = <<>>
    /\ called_at = 0
    /\ first_failure = NewDeferredList(0)
    /\ gathering = NewDeferredList(0)
    /\ log = <<>>

NextGather ==
    \/ \E i \in DOMAIN deferreds, ok \in BOOLEAN : fire_before(i, ok) /\ UNCHANGED <<cvars, avars>>
    \/ call_gather_deferreds /\ UNCHANGED <<cvars, avars>>
    \/ \E i \in DOMAIN deferreds, ok \in BOOLEAN : fire_after(i, ok) /\ UNCHANGED <<cvars, avars>>

SpecGather == InitGather /\ [][NextGather]_vars

SpecAgent == InitAgent /\ [][NextAgent]_vars

====
